---- MODULE Spec2Model ----
(***************************************************************************)
(* TaskRunner (src/src/task/TaskRunner.ts): the poll -> execute -> update  *)
(* loop of a conductor worker.                                             *)
(*                                                                         *)
(* JavaScript runs one synchronous segment at a time, so every action      *)
(* below is one segment: from the call (startPolling, stopPolling) or the  *)
(* settlement of an awaited promise (poll, execute, updateTask1, a timer)  *)
(* up to the next await.  A collaborator that throws synchronously inside  *)
(* an awaited call is caught by the same catch as a rejection, so both are *)
(* the "rejects" actions.  Each invocation of poll() is one element of the *)
(* bag loops[r]; the invocations are anonymous promises, so a bag is the   *)
(* collection they form.  The errorHandler and the logger are supplied by  *)
(* the host application and may throw at any call.  The variable step      *)
(* records what the last segment was given and the calls it made to the    *)
(* collaborators, in order;                                                *)
(* startsLeft is the number of times the host application will still start *)
(* a stopped runner.                                                       *)
(***************************************************************************)
EXTENDS Bags, FiniteSets, Integers, Sequences, TLC

VARIABLES runners, isPolling, loops, step, startsLeft

vars == <<runners, isPolling, loops, step, startsLeft>>

----------------------------------------------------------------------------
(* Bounds and program constants *)

\* how many times the host application starts a stopped runner
MaxStarts == 1

DEFAULT_ERROR_MESSAGE == "An unknown error occurred"
MAX_RETRIES == 3
\* options.pollInterval, the configured delay between iterations
PollInterval == 100

----------------------------------------------------------------------------
(* Values *)

\* a field the value does not carry (undefined)
Absent == "undefined"

\* JavaScript truthiness of a string-or-undefined field
Truthy(s) == s # Absent /\ s # ""

TaskOf(id, wf) == [present |-> TRUE, taskId |-> id, workflowInstanceId |-> wf]
NoTask == [present |-> FALSE, taskId |-> Absent, workflowInstanceId |-> Absent]
Tasks == {TaskOf("t1", "w1")}
\* what taskResource.poll can resolve with: nothing, a task without a usable
\* identifier, or a task
PollResponses == Tasks \cup {NoTask, TaskOf(Absent, "w1")}

NoResult ==
    [taskId |-> Absent, workflowInstanceId |-> Absent, status |-> Absent,
     outputData |-> Absent, reasonForIncompletion |-> Absent]
\* what worker.execute can resolve with; the second carries identifiers of
\* its own
WorkerResults ==
    {[NoResult EXCEPT !.status = "COMPLETED", !.outputData = "{x:1}"],
     [NoResult EXCEPT !.status = "IN_PROGRESS", !.outputData = "{}",
                      !.taskId = "tX", !.workflowInstanceId = "wX"]}

ErrOf(m, s) == [kind |-> "object", message |-> m, stack |-> s]
\* null or undefined used as a rejection value
NilError == [kind |-> "nil", message |-> Absent, stack |-> Absent]
NoError == [kind |-> "none", message |-> Absent, stack |-> Absent]
\* the failure values worker.execute and taskResource.poll can raise
\* (unknown, duck-typed)
ErrVals == {ErrOf("boom", "trace"), ErrOf(Absent, Absent), NilError}
\* what taskResource.poll can reject with: the funnel reads both fields, so
\* also the values that carry only one of them
PollErrVals == ErrVals \cup {ErrOf("boom", Absent), ErrOf(Absent, "trace")}
\* what taskResource.updateTask1 can reject with: the value is handed to the
\* errorHandler and the logger (L112-116) and never read, so one value, told
\* apart from every other failure, stands for all
UpdateErrVals == {ErrOf("update failed", "update trace")}
\* what a throwing errorHandler or logger raises
CallbackError == ErrOf("callback failed", "callback trace")

TaskDefName(r) == IF r = 1 THEN "taskA" ELSE "taskB"

\* for each errorHandler or logger call of a segment, in call order: does
\* it throw.  No segment makes more than 5 such calls, a first exception is
\* caught at most once, and the catch of the loop makes two calls; so these
\* are all the outcomes there are
AllOracles ==
    {[k \in 1..5 |-> k = p \/ (q > 0 /\ k = p + q)] : p \in 0..5, q \in 0..2}
\* the outcomes of at most n calls
Oracles(n) == {o \in AllOracles : \A k \in DOMAIN o : k > n => ~o[k]}

----------------------------------------------------------------------------
(* Calls to the collaborators *)

Call(fn, err, task, result, text, ms) ==
    [fn |-> fn, err |-> err, task |-> task, result |-> result,
     text |-> text, ms |-> ms]

PollCall(r) == Call("taskResource.poll", NoError, NoTask, NoResult, <<TaskDefName(r)>>, 0)
ExecuteCall(t) == Call("worker.execute", NoError, t, NoResult, <<>>, 0)
UpdateCall(res) == Call("taskResource.updateTask1", NoError, NoTask, res, <<>>, 0)
HandlerCall(e, t) == Call("errorHandler", e, t, NoResult, <<>>, 0)
LogCall(level, text) == Call(level, NoError, NoTask, NoResult, text, 0)
TimerCall(ms) == Call("setTimeout", NoError, NoTask, NoResult, <<>>, ms)

----------------------------------------------------------------------------
(* One invocation of poll() *)

\* pc: awaitPoll, awaitExecute, awaitUpdate, backoff, sleep are the awaits;
\* done: the loop left the while; dead: an exception left poll().
\* task, taskResult, error, site, retryCount are the locals of executeTask and
\* updateTaskWithRetry (site: the call of updateTaskWithRetry that is active,
\* in the try or in the catch of executeTask).  The rest is history:
\* execCalls and updCalls count the worker.execute and the
\* updateTaskWithRetry calls of the iteration, owed is the number of
\* exceptions caught by the three catch blocks (L94, L111, L135) in the
\* iteration minus the number of its errorHandler calls; attempts, delays
\* and callbacks are the updateTask1 calls, the backoff delays and the
\* errorHandler calls (L112) of the updateTaskWithRetry call in progress.
NewIteration ==
    [pc |-> "awaitPoll", task |-> NoTask, taskResult |-> NoResult,
     error |-> NoError, site |-> "none", retryCount |-> 0,
     execCalls |-> 0, updCalls |-> 0, owed |-> 0,
     attempts |-> 0, delays |-> <<>>, callbacks |-> 0]

\* how the updateTaskWithRetry call that ended in a segment went
NoUpd ==
    [end |-> "none", site |-> "none", attempts |-> 0, delays |-> <<>>,
     callbacks |-> 0]
\* how the iteration that ended in a segment went
NoIter == [end |-> "none", execCalls |-> 0, updCalls |-> 0, owed |-> 0]

\* a segment in progress: the loop, the calls made so far, and the
\* updateTaskWithRetry call and the iteration it has ended
\* (n: the errorHandler and logger calls among them)
Segment(l) ==
    [l |-> l, calls |-> <<>>, n |-> 0, upd |-> NoUpd, iter |-> NoIter]

Emit(S, c) == [S EXCEPT !.calls = Append(@, c)]

\* a call of the logger; Threw tells whether the last such call threw
Log(S, level, text) == [Emit(S, LogCall(level, text)) EXCEPT !.n = @ + 1]
Threw(S, o) == o[S.n]
\* the oracle says nothing about calls that are not made
Unused(S, o) == \A k \in DOMAIN o : k > S.n => ~o[k]

\* one of the catch blocks is entered
Failure(S) == [S EXCEPT !.l.owed = @ + 1]

\* L83-88: the request of an iteration
RequestPoll(r) == Emit(Segment(NewIteration), PollCall(r))

\* the iteration is over; the locals and the history go with it
EndIteration(S, pc) ==
    [S EXCEPT !.l = [NewIteration EXCEPT !.pc = pc],
              !.iter = [end |-> pc, execCalls |-> S.l.execCalls,
                        updCalls |-> S.l.updCalls, owed |-> S.l.owed]]

\* (going on without the sleep)
SleepSkipped(S) == EndIteration(S, "sleep")

\* L99-101: the sleep that ends an iteration
Sleep(S) == Emit(EndIteration(S, "sleep"), TimerCall(PollInterval))

\* an exception leaves poll(): the promise rejects and the loop is over
Die(S) == EndIteration(S, "dead")

InvokeHandler(S, e, t) ==
    Emit([S EXCEPT !.l.owed = @ - 1, !.n = @ + 1], HandlerCall(e, t))

\* L149-161: reading .stack of null or undefined throws; otherwise one line
handleUnknownErrorThrows(e) == e.kind = "nil"
handleUnknownErrorLine(r, e) ==
    <<"Error for", TaskDefName(r),
      IF Truthy(e.message) THEN e.message ELSE "",
      IF Truthy(e.stack) THEN e.stack ELSE "">>

\* (the callback before the funnel)
pollCatchCallbackFirst(S, r, e, o) ==
    LET S1 == InvokeHandler(Failure(S), e, NoTask)
        S2 == Log(S1, "logger.error", handleUnknownErrorLine(r, e))
    IN  IF Threw(S1, o) \/ handleUnknownErrorThrows(e) THEN Die(S1)
        ELSE IF Threw(S2, o) THEN Die(S2)
        ELSE Sleep(S2)

\* L94-97: the catch of the loop body
pollCatch(S, r, e, o) ==
    IF handleUnknownErrorThrows(e) THEN Die(Failure(S))
    ELSE LET S1 == Log(Failure(S), "logger.error",
                       handleUnknownErrorLine(r, e))
             S2 == InvokeHandler(S1, e, NoTask)
         IN  IF Threw(S1, o) THEN Die(S1)
             ELSE IF Threw(S2, o) THEN Die(S2)
             ELSE Sleep(S2)

\* (a retry that runs the worker again)
AttemptReexecutes(S) ==
    LET S1 == IF S.l.attempts = 0 THEN S
              ELSE Emit([S EXCEPT !.l.execCalls = @ + 1],
                        ExecuteCall(S.l.task))
    IN  Emit([S1 EXCEPT !.l.pc = "awaitUpdate", !.l.attempts = @ + 1],
             UpdateCall(S.l.taskResult))

\* L109: one delivery attempt
Attempt(S) ==
    Emit([S EXCEPT !.l.pc = "awaitUpdate", !.l.attempts = @ + 1],
         UpdateCall(S.l.taskResult))

\* L105-109: updateTaskWithRetry(task, taskResult) up to its first await
updateTaskWithRetry(S, res, site) ==
    Attempt([S EXCEPT !.l.taskResult = res, !.l.site = site,
                      !.l.retryCount = 0, !.l.updCalls = @ + 1,
                      !.l.attempts = 0, !.l.delays = <<>>,
                      !.l.callbacks = 0])

\* updateTaskWithRetry is left: "delivered" (L110), "abandoned" (L121-123)
\* or "raised" (an exception)
EndUpdate(S, end) ==
    [S EXCEPT !.upd = [end |-> end, site |-> S.l.site,
                       attempts |-> S.l.attempts, delays |-> S.l.delays,
                       callbacks |-> S.l.callbacks]]

\* (the identifiers spread after the worker's result would let the worker's
\* own identifiers win)
SuccessResultWorkerIdsWin(result, task) ==
    [result EXCEPT
        !.workflowInstanceId =
            IF @ = Absent THEN task.workflowInstanceId ELSE @,
        !.taskId = IF @ = Absent THEN task.taskId ELSE @]

\* L130-132: the worker's result, then the task's identifiers
SuccessResult(result, task) ==
    [result EXCEPT !.workflowInstanceId = task.workflowInstanceId,
                   !.taskId = task.taskId]

\* (without the ?? fallback)
FailedResultNoDefault(task, e) ==
    [workflowInstanceId |-> task.workflowInstanceId,
     taskId |-> task.taskId,
     reasonForIncompletion |-> e.message,
     status |-> "FAILED",
     outputData |-> "{}"]

\* L137-142
FailedResult(task, e) ==
    [workflowInstanceId |-> task.workflowInstanceId,
     taskId |-> task.taskId,
     reasonForIncompletion |->
         IF e.kind = "nil" \/ e.message = Absent
         THEN DEFAULT_ERROR_MESSAGE ELSE e.message,
     status |-> "FAILED",
     outputData |-> "{}"]

\* (the callback before the delivery of the failed Result)
executeTaskCatchCallbackFirst(S, e) ==
    updateTaskWithRetry(Emit([Failure(S) EXCEPT !.l.error = e],
                             HandlerCall(e, S.l.task)),
                        FailedResult(S.l.task, e), "catch")

\* L135-143: the catch of executeTask up to its await
executeTaskCatch(S, e) ==
    updateTaskWithRetry([Failure(S) EXCEPT !.l.error = e],
                        FailedResult(S.l.task, e), "catch")

\* an exception leaves updateTaskWithRetry: the call in the try of
\* executeTask is caught by its catch, the call in the catch leaves
\* executeTask and reaches the catch of the loop
updateRaises(S, r, e, o) ==
    LET S1 == EndUpdate(S, "raised")
    IN  IF S.l.site = "try" THEN executeTaskCatch(S1, e)
        ELSE pollCatch(S1, r, e, o)

\* updateTaskWithRetry returned: L134 in the try, L144-145 in the catch
afterUpdate(S, r, o) ==
    IF S.l.site = "try"
    THEN LET S1 == Log(S, "logger.debug",
                       <<"Finished polling for task", S.l.task.taskId>>)
         IN  IF Threw(S1, o) THEN executeTaskCatch(S1, CallbackError)
             ELSE Sleep(S1)
    ELSE LET S1 == InvokeHandler(S, S.l.error, S.l.task)
             S2 == Log(S1, "logger.error",
                       <<"Error executing", S.l.task.taskId>>)
         IN  IF Threw(S1, o) THEN pollCatch(S1, r, CallbackError, o)
             ELSE IF Threw(S2, o) THEN pollCatch(S2, r, CallbackError, o)
             ELSE Sleep(S2)

\* (without the test of task.taskId)
HasTaskAnyId(task) == task.present

\* L89
HasTask(task) == task.present /\ Truthy(task.taskId)

\* L90, L126-128: executeTask(task) up to its await
executeTask(S, task) ==
    Emit([S EXCEPT !.l.pc = "awaitExecute", !.l.task = task,
                   !.l.execCalls = @ + 1],
         ExecuteCall(task))

----------------------------------------------------------------------------
(* State *)

\* the last segment: the runner, what happened (op) with the value it came
\* with (err, task, result), the exception thrown to the caller of
\* startPolling, the calls made, and what the segment ended
Step(r, op, err, task, result, thrown, S) ==
    [r |-> r, op |-> op, err |-> err, task |-> task, result |-> result,
     thrown |-> thrown, calls |-> S.calls, upd |-> S.upd, iter |-> S.iter]

\* L40-60: a runner as constructed
Init ==
    /\ runners = {1}
    /\ isPolling = [r \in runners |-> FALSE]
    /\ loops = [r \in runners |-> EmptyBag]
    /\ step = Step(1, "constructor", NoError, NoTask, NoResult, "",
                   Segment(NewIteration))
    /\ startsLeft = MaxStarts

Replace(r, l, S) ==
    loops' = [loops EXCEPT ![r] = (@ (-) SetToBag({l})) (+) SetToBag({S.l})]

At(r, pc) == {l \in BagToSet(loops[r]) : l.pc = pc}

----------------------------------------------------------------------------
(* Actions *)

\* Each action is one segment; S is that segment once it has run: the loop
\* at its next await (or ended) and the calls made.

\* (returning silently instead of throwing)
startErrorSilent(polling) == ""

\* L66-68: what startPolling throws
startError(polling) == IF polling THEN "Runner is already started" ELSE ""

\* (a flag shared by the runners, as a static field would be)
startPollingSharedFlag(r) ==
    IF isPolling[r]
    THEN /\ step' = Step(r, "startPolling", NoError, NoTask, NoResult,
                         startError(isPolling[r]), Segment(NewIteration))
         /\ UNCHANGED <<runners, isPolling, loops, startsLeft>>
    ELSE /\ startsLeft > 0
         /\ startsLeft' = startsLeft - 1
         /\ isPolling' = [q \in runners |-> TRUE]
         /\ LET S == RequestPoll(r)
            IN  /\ loops' = [loops EXCEPT ![r] = @ (+) SetToBag({S.l})]
                /\ step' = Step(r, "startPolling", NoError, NoTask, NoResult,
                                startError(isPolling[r]), S)
         /\ UNCHANGED runners

\* L65-72
startPolling(r) ==
    IF isPolling[r]
    THEN /\ step' = Step(r, "startPolling", NoError, NoTask, NoResult,
                         startError(isPolling[r]), Segment(NewIteration))
         /\ UNCHANGED <<runners, isPolling, loops, startsLeft>>
    ELSE /\ startsLeft > 0
         /\ startsLeft' = startsLeft - 1
         /\ isPolling' = [isPolling EXCEPT ![r] = TRUE]
         /\ LET S == RequestPoll(r)
            IN  /\ loops' = [loops EXCEPT ![r] = @ (+) SetToBag({S.l})]
                /\ step' = Step(r, "startPolling", NoError, NoTask, NoResult,
                                startError(isPolling[r]), S)
         /\ UNCHANGED runners

\* (leaving the flag as it is)
stopPollingKeepsFlag(r) ==
    /\ step' = Step(r, "stopPolling", NoError, NoTask, NoResult, "",
                    Segment(NewIteration))
    /\ UNCHANGED <<runners, isPolling, loops, startsLeft>>

\* L76-78
stopPolling(r) ==
    /\ isPolling' = [isPolling EXCEPT ![r] = FALSE]
    /\ step' = Step(r, "stopPolling", NoError, NoTask, NoResult, "",
                    Segment(NewIteration))
    /\ UNCHANGED <<runners, loops, startsLeft>>

\* L84-93: taskResource.poll resolved
pollResolves(r) ==
    \E l \in At(r, "awaitPoll"), task \in PollResponses, o \in Oracles(3) :
        LET S0 == Segment(l)
            Seg == IF HasTask(task) THEN executeTask(S0, task)
                   ELSE LET S1 == Log(S0, "logger.debug",
                                      <<"No tasks for", TaskDefName(r)>>)
                        IN  IF Threw(S1, o) THEN pollCatch(S1, r, CallbackError, o)
                            ELSE Sleep(S1)
        IN  \E S \in {Seg} :
            /\ Unused(S, o)
            /\ Replace(r, l, S)
            /\ step' = Step(r, "poll.resolved", NoError, task, NoResult, "", S)
            /\ UNCHANGED <<runners, isPolling, startsLeft>>

\* L84, L94-97: taskResource.poll rejected
pollRejects(r) ==
    \E l \in At(r, "awaitPoll"), e \in PollErrVals, o \in Oracles(2) :
        LET Seg == pollCatch(Segment(l), r, e, o)
        IN  \E S \in {Seg} :
            /\ Unused(S, o)
            /\ Replace(r, l, S)
            /\ step' = Step(r, "poll.rejected", e, NoTask, NoResult, "", S)
            /\ UNCHANGED <<runners, isPolling, startsLeft>>

\* L128-133: worker.execute resolved
executeResolves(r) ==
    \E l \in At(r, "awaitExecute"), result \in WorkerResults :
        LET Seg == updateTaskWithRetry(Segment(l),
                                       SuccessResult(result, l.task), "try")
        IN  \E S \in {Seg} :
            /\ Replace(r, l, S)
            /\ step' = Step(r, "execute.resolved", NoError, l.task, result, "", S)
            /\ UNCHANGED <<runners, isPolling, startsLeft>>

\* L128, L135-143: worker.execute rejected
executeRejects(r) ==
    \E l \in At(r, "awaitExecute"), e \in ErrVals :
        LET Seg == executeTaskCatch(Segment(l), e)
        IN  \E S \in {Seg} :
            /\ Replace(r, l, S)
            /\ step' = Step(r, "execute.rejected", e, l.task, NoResult, "", S)
            /\ UNCHANGED <<runners, isPolling, startsLeft>>

\* L109-110: updateTask1 resolved
updateResolves(r) ==
    \E l \in At(r, "awaitUpdate"), o \in Oracles(4) :
        LET Seg == afterUpdate(EndUpdate(Segment(l), "delivered"), r, o)
        IN  \E S \in {Seg} :
            /\ Unused(S, o)
            /\ Replace(r, l, S)
            /\ step' = Step(r, "update.resolved", NoError, l.task, l.taskResult, "", S)
            /\ UNCHANGED <<runners, isPolling, startsLeft>>

\* (the delay taken before the increment of retryCount)
BackoffDelayBeforeIncrement(retryCount) == (retryCount - 1) * 10

\* L118: the delay after a failed attempt, retryCount already incremented
BackoffDelay(retryCount) == retryCount * 10

\* L111-118: updateTask1 rejected
updateRejects(r) ==
    \E l \in At(r, "awaitUpdate"), e \in UpdateErrVals, o \in Oracles(4) :
        LET S0 == Failure(Segment(l))
            S1 == InvokeHandler([S0 EXCEPT !.l.callbacks = @ + 1], e, l.task)
            S2 == Log(S1, "logger.error",
                      <<"Error updating task", l.taskResult.taskId>>)
            n == l.retryCount + 1
            S3 == Emit([S2 EXCEPT !.l.retryCount = n, !.l.pc = "backoff",
                                  !.l.delays = Append(@, BackoffDelay(n))],
                       TimerCall(BackoffDelay(n)))
            Seg == IF Threw(S1, o) THEN updateRaises(S1, r, CallbackError, o)
                   ELSE IF Threw(S2, o) THEN updateRaises(S2, r, CallbackError, o)
                   ELSE S3
        IN  \E S \in {Seg} :
            /\ Unused(S, o)
            /\ Replace(r, l, S)
            /\ step' = Step(r, "update.rejected", e, l.task, l.taskResult, "", S)
            /\ UNCHANGED <<runners, isPolling, startsLeft>>

\* L118, L107, L121-123: the backoff timer fired
backoffElapses(r) ==
    \E l \in At(r, "backoff"), o \in Oracles(5) :
        LET S0 == Segment(l)
            S1 == Log(S0, "logger.error",
                      <<"Unable to update task", l.taskResult.taskId>>)
            Seg == IF l.retryCount < MAX_RETRIES THEN Attempt(S0)
                   ELSE IF Threw(S1, o) THEN updateRaises(S1, r, CallbackError, o)
                   ELSE afterUpdate(EndUpdate(S1, "abandoned"), r, o)
        IN  \E S \in {Seg} :
            /\ Unused(S, o)
            /\ Replace(r, l, S)
            /\ step' = Step(r, "backoff.elapsed", NoError, l.task, l.taskResult, "", S)
            /\ UNCHANGED <<runners, isPolling, startsLeft>>

\* (a loop that does not read the flag)
sleepElapsesIgnoresFlag(r) ==
    \E l \in At(r, "sleep") :
        LET Seg == RequestPoll(r)
        IN  \E S \in {Seg} :
            /\ Replace(r, l, S)
            /\ step' = Step(r, "sleep.elapsed", NoError, NoTask, NoResult, "", S)
            /\ UNCHANGED <<runners, isPolling, startsLeft>>

\* L99-101, L81: the poll-interval timer fired and the flag is read
sleepElapses(r) ==
    \E l \in At(r, "sleep") :
        LET Seg == IF isPolling[r] THEN RequestPoll(r)
                   ELSE Segment([NewIteration EXCEPT !.pc = "done"])
        IN  \E S \in {Seg} :
            /\ Replace(r, l, S)
            /\ step' = Step(r, "sleep.elapsed", NoError, NoTask, NoResult, "", S)
            /\ UNCHANGED <<runners, isPolling, startsLeft>>

Next ==
    \E r \in runners :
        \/ startPolling(r)
        \/ stopPolling(r)
        \/ pollRejects(r)
        \/ pollResolves(r)
        \/ executeRejects(r)
        \/ executeResolves(r)
        \/ updateRejects(r)
        \/ updateResolves(r)
        \/ backoffElapses(r)
        \/ sleepElapses(r)

Spec == Init /\ [][Next]_vars

\* a runner that was started and stopped, and whose loop has seen the flag
\* and ended
InitRestart ==
    /\ runners = {1}
    /\ isPolling = [r \in runners |-> FALSE]
    /\ loops = [r \in runners |->
                   SetToBag({[NewIteration EXCEPT !.pc = "done"]})]
    /\ step = Step(1, "sleep.elapsed", NoError, NoTask, NoResult, "",
                   Segment([NewIteration EXCEPT !.pc = "done"]))
    /\ startsLeft = MaxStarts

SpecRestart == InitRestart /\ [][Next]_vars

\* a runner that was started and stopped at once: its loop still awaits the
\* answer to its first request
InitOverlap ==
    /\ runners = {1}
    /\ isPolling = [r \in runners |-> FALSE]
    /\ loops = [r \in runners |-> SetToBag({NewIteration})]
    /\ step = Step(1, "stopPolling", NoError, NoTask, NoResult, "",
                   Segment(NewIteration))
    /\ startsLeft = MaxStarts

SpecOverlap == InitOverlap /\ [][Next]_vars

\* L40-60: two runners as constructed, one per worker
InitTwoRunners ==
    /\ runners = {1, 2}
    /\ isPolling = [r \in runners |-> FALSE]
    /\ loops = [r \in runners |-> EmptyBag]
    /\ step = Step(1, "constructor", NoError, NoTask, NoResult, "",
                   Segment(NewIteration))
    /\ startsLeft = MaxStarts

SpecTwoRunners == InitTwoRunners /\ [][Next]_vars

----------------------------------------------------------------------------
(* Properties *)

AllLoops == UNION {BagToSet(loops[r]) : r \in runners}

\* the calls of the last segment to one collaborator
CallsTo(fn) == SelectSeq(step.calls, LAMBDA c : c.fn = fn)

\* the poll() invocations of r that are between their request and the end
\* of the update, and those that hold a task
InCycle(r) ==
    BagCardinality([l \in {x \in BagToSet(loops[r]) :
                               x.pc \in {"awaitPoll", "awaitExecute",
                                          "awaitUpdate", "backoff"}}
                    |-> CopiesIn(l, loops[r])])
WithTask(r) ==
    BagCardinality([l \in {x \in BagToSet(loops[r]) :
                               x.pc \in {"awaitExecute", "awaitUpdate",
                                          "backoff"}}
                    |-> CopiesIn(l, loops[r])])

\* C1: a runner never has two poll cycles (fetch, execute, update) in
\* flight, nor two tasks in flight, whatever the order of the startPolling
\* and stopPolling calls.
C1_OnePollCycle ==
    \A r \in runners : InCycle(r) <= 1 /\ WithTask(r) <= 1

\* C2: startPolling on a runner that is polling throws "Runner is already
\* started" and changes nothing: the flag stays true and no loop is added.
C2_AlreadyRunning ==
    [][\A r \in runners :
          (step'.op = "startPolling" /\ step'.r = r /\ isPolling[r])
          => /\ step'.thrown = "Runner is already started"
             /\ step'.calls = <<>>
             /\ isPolling'[r]
             /\ loops' = loops]_vars

C2_Witness ==
    /\ step.op = "startPolling"
    /\ step.thrown = "Runner is already started"
    /\ isPolling[step.r]

\* C3: startPolling on a runner that is stopped (and in particular right
\* after stopPolling) throws nothing, sets the flag and starts a loop that
\* issues a poll request at once.
C3_RestartResumes ==
    [][\A r \in runners :
          ( /\ step'.op = "startPolling" /\ step'.r = r
            /\ \/ ~isPolling[r]
               \/ step.op = "stopPolling" /\ step.r = r )
          => /\ step'.thrown = ""
             /\ isPolling'[r]
             /\ step'.calls = <<PollCall(r)>>
             /\ loops'[r] = loops[r] (+) SetToBag({NewIteration})]_vars

\* a start that follows an earlier run of the runner
C3_Witness ==
    /\ step.op = "startPolling" /\ step.thrown = ""
    /\ isPolling[step.r]
    /\ \E l \in BagToSet(loops[step.r]) : l.pc = "done"
    /\ \E l \in BagToSet(loops[step.r]) : l.pc = "awaitPoll"

\* C4: when poll resolves with no task, or with a task without a usable
\* taskId, the segment calls neither worker.execute nor updateTask1, the
\* iteration ends there, and the loop polls again only after the
\* poll-interval timer it sets has fired.
C4_NoTaskNoWork ==
    /\ ( step.op = "poll.resolved"
         /\ ~(step.task.present /\ step.task.taskId \notin {Absent, ""}) )
       => /\ CallsTo("worker.execute") = <<>>
          /\ CallsTo("taskResource.updateTask1") = <<>>
          /\ CallsTo("taskResource.poll") = <<>>
          /\ step.iter.end \in {"sleep", "dead"}
          /\ step.iter.execCalls = 0 /\ step.iter.updCalls = 0
          /\ step.iter.end = "sleep"
             => step.calls[Len(step.calls)] = TimerCall(PollInterval)
    /\ CallsTo("taskResource.poll") # <<>>
       => step.op \in {"startPolling", "sleep.elapsed"}

C4_Witness ==
    /\ step.op = "poll.resolved"
    /\ step.task.present /\ step.task.taskId = Absent
    /\ step.iter.end = "sleep"

\* C5: for a task with a valid identifier, worker.execute is called once
\* and updateTaskWithRetry is called once, whatever the worker does, and the
\* Result carries the identifiers of the task.
C5_OneExecuteOneUpdate ==
    /\ \A l \in AllLoops :
          l.pc \in {"awaitUpdate", "backoff"}
          => /\ l.execCalls = 1 /\ l.updCalls = 1
             /\ l.taskResult.taskId = l.task.taskId
             /\ l.taskResult.workflowInstanceId = l.task.workflowInstanceId
    /\ (step.iter.end # "none" /\ step.iter.execCalls > 0)
       => step.iter.execCalls = 1 /\ step.iter.updCalls = 1

\* C6: an updateTaskWithRetry call whose delivery attempts all fail makes
\* 3 attempts, waits 10, 20 and 30 after them, and then gives up; there is
\* never a 4th attempt.
C6_ThreeAttemptsThenAbandon ==
    /\ \A l \in AllLoops : l.attempts <= 3
    /\ step.upd.end \in {"abandoned", "raised"}
       => /\ step.upd.end = "abandoned"
          /\ step.upd.attempts = 3
          /\ step.upd.delays = <<10, 20, 30>>

\* C7: updateTaskWithRetry always returns normally, after at most 3
\* attempts: no exception reaches executeTask.
C7_UpdateNeverRaises ==
    /\ step.upd.end # "raised"
    /\ step.upd.attempts <= 3

\* C8: when worker.execute rejects, the Result given to updateTask1 has the
\* identifiers of the task, status FAILED, empty outputData, and as
\* reasonForIncompletion the message of the failure if it has one, else
\* the default message.
C8_FailedResult ==
    step.op = "execute.rejected"
    => step.calls =
         <<UpdateCall([taskId |-> step.task.taskId,
                       workflowInstanceId |-> step.task.workflowInstanceId,
                       status |-> "FAILED",
                       outputData |-> "{}",
                       reasonForIncompletion |->
                           IF step.err.kind = "object"
                              /\ step.err.message # Absent
                           THEN step.err.message
                           ELSE "An unknown error occurred"])>>

\* a failure that is not even an object
C8_Witness ==
    /\ step.op = "execute.rejected" /\ step.err.kind = "nil"
    /\ \E l \in AllLoops :
          l.pc = "awaitUpdate" /\ l.taskResult.status = "FAILED"

\* C9: when worker.execute resolves, the Result given to updateTask1 has
\* the status and the outputData of the worker's result and the identifiers
\* of the task, whatever identifiers the worker's result has.
C9_SuccessResult ==
    step.op = "execute.resolved"
    => /\ Len(step.calls) = 1
       /\ step.calls[1].fn = "taskResource.updateTask1"
       /\ step.calls[1].result.status = step.result.status
       /\ step.calls[1].result.outputData = step.result.outputData
       /\ step.calls[1].result.taskId = step.task.taskId
       /\ step.calls[1].result.workflowInstanceId
             = step.task.workflowInstanceId

\* a worker's result with identifiers of its own
C9_Witness ==
    /\ step.op = "execute.resolved"
    /\ step.result.taskId = "tX"
    /\ step.task.taskId = "t1"

\* C10: the errorHandler is called once for each failure at the three
\* sites (the catch of the loop, of executeTask and of an update attempt),
\* with that failure (and the task, except for poll): at the end of an
\* iteration there are as many calls as failures caught.
C10_CallbackOncePerFailure ==
    /\ step.iter.end # "none" => step.iter.owed = 0
    /\ step.op = "poll.rejected"
       => CallsTo("errorHandler") = <<HandlerCall(step.err, NoTask)>>
    /\ step.op = "update.rejected"
       => /\ CallsTo("errorHandler") # <<>>
          /\ CallsTo("errorHandler")[1] = HandlerCall(step.err, step.task)

\* the poll() invocations in a bag that have left their while loop
DoneCount(b) == CopiesIn([NewIteration EXCEPT !.pc = "done"], b)
SleepCount(b) == CopiesIn([NewIteration EXCEPT !.pc = "sleep"], b)

\* C11: no exception leaves poll(): every iteration ends in the sleep of
\* L99, whatever failed in it (poll, execute, an update attempt, the funnel,
\* the errorHandler or the logger), and a loop ends only by reading the flag
\* false after its sleep.
C11_NoErrorExitsLoop ==
    /\ \A l \in AllLoops : l.pc # "dead"
    /\ step.iter.end \in {"none", "sleep"}
    /\ (step.op = "sleep.elapsed" /\ step.calls = <<>>) => ~isPolling[step.r]

\* C12: stopPolling only clears the flag: it makes no call and leaves every
\* loop where it is; a loop in the middle of an iteration goes on with the
\* flag false; a loop leaves its while only in the segment that follows its
\* sleep, with the flag false, and that segment makes no call; a loop that
\* has left never acts again.
C12_CooperativeStop ==
    /\ [][\A r \in runners :
             /\ (step'.op = "stopPolling" /\ step'.r = r)
                => /\ ~isPolling'[r]
                   /\ loops' = loops
                   /\ step'.calls = <<>>
             /\ (step'.op = "sleep.elapsed" /\ step'.r = r /\ ~isPolling[r])
                => /\ step'.calls = <<>>
                   /\ DoneCount(loops'[r]) = DoneCount(loops[r]) + 1
                   /\ SleepCount(loops'[r]) = SleepCount(loops[r]) - 1
             /\ DoneCount(loops'[r]) # DoneCount(loops[r])
                => /\ step'.op = "sleep.elapsed" /\ step'.r = r
                   /\ ~isPolling[r]
                   /\ DoneCount(loops'[r]) = DoneCount(loops[r]) + 1
             /\ ( /\ ~isPolling[r]
                  /\ step'.r = r
                  /\ step'.op \in {"poll.resolved", "execute.resolved",
                                   "execute.rejected", "backoff.elapsed"}
                  /\ step'.iter.end = "none" )
                => /\ step'.calls # <<>>
                   /\ step'.calls[Len(step'.calls)].fn
                         \in {"worker.execute", "taskResource.updateTask1"}]_vars
    /\ [](\A r \in runners :
             ~isPolling[r]
             => /\ At(r, "awaitPoll") # {} => ENABLED pollResolves(r)
                /\ At(r, "awaitExecute") # {} => ENABLED executeResolves(r)
                /\ At(r, "awaitUpdate") # {}
                   => ENABLED updateResolves(r) /\ ENABLED updateRejects(r)
                /\ At(r, "backoff") # {} => ENABLED backoffElapses(r))

\* a delivery that succeeds after the runner was stopped
C12_Witness ==
    /\ step.op = "update.resolved"
    /\ ~isPolling[step.r]
    /\ step.upd.end = "delivered"
    /\ step.iter.end = "sleep"

\* C13: for every failure value, also one without message, without stack,
\* or null/undefined, handleUnknownError logs one error line that names the
\* task type and has "" for each absent field, and raises nothing of its
\* own.
C13_FunnelAcceptsAnything ==
    step.op = "poll.rejected"
    => /\ Len(step.calls) >= 1
       /\ step.calls[1] =
            LogCall("logger.error",
                    <<"Error for", TaskDefName(step.r),
                      IF step.err.kind = "object" /\ step.err.message # Absent
                      THEN step.err.message ELSE "",
                      IF step.err.kind = "object" /\ step.err.stack # Absent
                      THEN step.err.stack ELSE "">>)
       /\ Len(CallsTo("logger.error")) = 1

\* C14: a loop issues a poll request only in startPolling and in the segment
\* that follows a poll-interval sleep; that sleep is set once, as the last
\* call of the segment that ends the iteration, when nothing of the
\* iteration is pending, and every iteration that ends normally sets it.
C14_OneSleepBetweenPolls ==
    [][\A r \in runners :
          /\ (step'.r = r /\ CallsTo("taskResource.poll")' # <<>>)
             => /\ step'.calls = <<PollCall(r)>>
                /\ \/ step'.op = "startPolling"
                   \/ /\ step'.op = "sleep.elapsed"
                      /\ SleepCount(loops'[r]) = SleepCount(loops[r]) - 1
                      /\ isPolling[r]
          /\ (step'.r = r /\ step'.iter.end = "sleep")
             => /\ step'.calls # <<>>
                /\ step'.calls[Len(step'.calls)] = TimerCall(PollInterval)
                /\ Cardinality({i \in 1..Len(step'.calls) :
                         step'.calls[i] = TimerCall(PollInterval)}) = 1
                /\ SleepCount(loops'[r]) = SleepCount(loops[r]) + 1
                /\ InCycle(r)' = InCycle(r) - 1
          /\ (step'.r = r /\ step'.iter.end # "sleep")
             => /\ \A i \in 1..Len(step'.calls) :
                      step'.calls[i] # TimerCall(PollInterval)
                /\ SleepCount(loops'[r]) <= SleepCount(loops[r])
          /\ (step'.r = r /\ step'.iter.end = "none"
              /\ step'.op \notin {"startPolling", "stopPolling",
                                  "sleep.elapsed"})
             => InCycle(r)' = InCycle(r)]_vars

\* an iteration that ran a task and failed to deliver goes to sleep
C14_Witness ==
    /\ step.op = "backoff.elapsed"
    /\ step.upd.end = "abandoned"
    /\ step.iter.end = "sleep"
    /\ step.calls[Len(step.calls)] = TimerCall(PollInterval)

C16_FailureDeliveredVerbatim ==
    /\ \A l \in AllLoops :
          (l.site = "catch" /\ l.pc \in {"awaitUpdate", "backoff"})
          => /\ l.execCalls = 1
             /\ l.attempts \in 1..3
             /\ l.taskResult =
                  [taskId |-> l.task.taskId,
                   workflowInstanceId |-> l.task.workflowInstanceId,
                   status |-> "FAILED",
                   outputData |-> "{}",
                   reasonForIncompletion |->
                       IF l.error.kind = "object" /\ l.error.message # Absent
                       THEN l.error.message
                       ELSE "An unknown error occurred"]
    /\ CallsTo("worker.execute") # <<>>
       => step.op = "poll.resolved" /\ Len(CallsTo("worker.execute")) = 1
    /\ ( /\ step.op \in {"update.rejected", "backoff.elapsed"}
         /\ step.result.status = "FAILED" )
       => /\ Len(CallsTo("taskResource.updateTask1")) <= 1
          /\ \A i \in 1..Len(CallsTo("taskResource.updateTask1")) :
                CallsTo("taskResource.updateTask1")[i]
                   = UpdateCall(step.result)
    /\ (step.upd.site = "catch" /\ step.upd.end # "none")
       => /\ step.upd.attempts \in 1..3
          /\ CallsTo("taskResource.updateTask1") = <<>>
          /\ step.iter.end # "none"
          /\ step.iter.execCalls = 1

\* the third attempt to deliver a FAILED Result
C16_Witness ==
    /\ step.op = "backoff.elapsed"
    /\ step.result.status = "FAILED"
    /\ CallsTo("taskResource.updateTask1") = <<UpdateCall(step.result)>>
    /\ \E l \in AllLoops :
          l.pc = "awaitUpdate" /\ l.site = "catch" /\ l.attempts = 3

\* C17: an updateTaskWithRetry call whose attempt k succeeds has made k
\* attempts (k in 1..3), has waited the k-1 delays 10, 20, .. and has called
\* the errorHandler k-1 times; the segment of the success sets no backoff
\* timer and does not send the Result again.
C17_StopsAtFirstSuccess ==
    step.upd.end = "delivered"
    => /\ step.op = "update.resolved"
       /\ step.upd.attempts \in 1..3
       /\ Len(step.upd.delays) = step.upd.attempts - 1
       /\ \A i \in 1..Len(step.upd.delays) : step.upd.delays[i] = 10 * i
       /\ step.upd.callbacks = step.upd.attempts - 1
       /\ \A i \in 1..Len(step.calls) :
             /\ step.calls[i].fn = "setTimeout"
                => step.calls[i].ms = PollInterval
             /\ step.calls[i].fn = "taskResource.updateTask1"
                => step.calls[i].result # step.result

\* the third attempt succeeds
C17_Witness ==
    /\ step.upd.end = "delivered"
    /\ step.upd.attempts = 3
    /\ step.upd.delays = <<10, 20>>

\* C18: while the flag of a runner is true, one of its poll() invocations
\* is still running (awaiting poll, execute, update, a backoff or its
\* sleep).
C18_FlagMeansLoopActive ==
    \A r \in runners :
        isPolling[r]
        => \E l \in BagToSet(loops[r]) : l.pc \notin {"done", "dead"}

\* the errorHandler calls of the last segment that were given a task
TaskHandlerCalls ==
    SelectSeq(step.calls, LAMBDA c : c.fn = "errorHandler" /\ c.task.present)

\* C19: the errorHandler is given a task only for a failed update attempt
\* (first thing in the segment of the rejection) and for the failure of
\* execute; the latter call is made only in the segment in which the
\* updateTaskWithRetry call of the catch has returned, delivered or given up
\* after 3 attempts, so after the callbacks of all its attempts, and it is
\* given the failure the FAILED Result was made from.
C19_ExecuteCallbackAfterDelivery ==
    /\ step.op \notin {"update.rejected", "update.resolved",
                       "backoff.elapsed"}
       => TaskHandlerCalls = <<>>
    /\ step.op = "update.rejected"
       => TaskHandlerCalls = <<HandlerCall(step.err, step.task)>>
    /\ ( /\ step.op \in {"update.resolved", "backoff.elapsed"}
         /\ TaskHandlerCalls # <<>> )
       => /\ Len(TaskHandlerCalls) = 1
          /\ TaskHandlerCalls[1].task = step.task
          /\ step.upd.site = "catch"
          /\ step.upd.end \in {"delivered", "abandoned"}
          /\ step.upd.end = "abandoned"
             => step.upd.attempts = 3 /\ step.upd.callbacks = 3
          /\ step.upd.end = "delivered"
             => step.upd.callbacks = step.upd.attempts - 1
          /\ step.result.status = "FAILED"
          /\ step.result.reasonForIncompletion =
               IF /\ TaskHandlerCalls[1].err.kind = "object"
                  /\ TaskHandlerCalls[1].err.message # Absent
               THEN TaskHandlerCalls[1].err.message
               ELSE "An unknown error occurred"
          /\ CallsTo("taskResource.updateTask1") = <<>>

\* the callback for the failure of execute after 3 failed attempts
C19_Witness ==
    /\ step.op = "backoff.elapsed"
    /\ step.upd.site = "catch"
    /\ step.upd.end = "abandoned"
    /\ TaskHandlerCalls # <<>>

\* C20: when taskResource.poll rejects, the iteration calls neither
\* worker.execute nor updateTask1; the errorHandler, if it is reached, is
\* called after the line of handleUnknownError, with the failure and no
\* task.
C20_FailedPollNoWork ==
    step.op = "poll.rejected"
    => /\ CallsTo("worker.execute") = <<>>
       /\ CallsTo("taskResource.updateTask1") = <<>>
       /\ step.iter.end \in {"sleep", "dead"}
       /\ step.iter.execCalls = 0 /\ step.iter.updCalls = 0
       /\ \A i \in 1..Len(step.calls) :
             step.calls[i].fn = "errorHandler"
             => /\ i = 2
                /\ step.calls[1].fn = "logger.error"
                /\ step.calls[1].text[1] = "Error for"
                /\ step.calls[1].text[2] = TaskDefName(step.r)
                /\ step.calls[i] = HandlerCall(step.err, NoTask)

C20_Witness ==
    /\ step.op = "poll.rejected"
    /\ Len(step.calls) = 3
    /\ step.calls[2].fn = "errorHandler"
    /\ step.iter.end = "sleep"

====
